---- MODULE Spec2Model ----
(***************************************************************************)
(* Verification model of the SSH callback server:                          *)
(*   - the login / verify_password lockout state machine of app_secure.py  *)
(*   - the rotating-key XOR obfuscation of crypto_utils.py                 *)
(* Time is the value of datetime.utcnow(), counted in minutes; the process *)
(* runs with TZ=UTC, so that datetime.utcnow().timestamp() is the POSIX    *)
(* time.                                                                   *)
(*                                                                         *)
(* The specifications share the variables:                                *)
(*   Spec        login requests served one at a time                       *)
(*   SpecConc    login requests for one identity served by two threads     *)
(*   SpecTwo     login requests for two identities served by two threads   *)
(*   SpecAbort   login requests whose verify_password may be cancelled     *)
(*   SpecOutage  login requests while the audit store may fail             *)
(*   SpecCrypto  encrypt_callback / decrypt_callback while the key rotates *)
(*   SpecXor     XORCipher._xor_bytes applied twice                        *)
(*   SpecKey     generate_key_for_date called again and again              *)
(*   SpecDomain  generate_domain_list called again and again               *)
(*   SpecAudit   audit_log called with the arguments login and logout use  *)
(*   SpecReg     client_callback.py registering with register_callback     *)
(*   SpecTrail   logins, logouts and registrations writing audit rows      *)
(*   SpecRotate  generate_rotating_key on the server and on the client     *)
(*   SpecDecrypt XORCipher.decrypt applied to texts of every shape         *)
(*                                                                         *)
(* hashlib.sha256 is not computed: each behaviour fixes, in its initial    *)
(* state, a collision-free assignment of 32-byte digest values to the      *)
(* dates, drawn from a sample of digest values.                            *)
(***************************************************************************)
EXTENDS Integers, Sequences, FiniteSets, TLC

VARIABLES
    now,        \* datetime.utcnow(), in minutes since the epoch
    users,      \* the users table: username -> row (failed_attempts, locked_until)
    pc,         \* position of each request handler
    req,        \* the login form each handler received (username, password)
    row,        \* verify_password's local copy of the SELECTed row
    ret,        \* the tuple verify_password returned
    outcome,    \* which return statement of verify_password / login was taken
    checked,    \* whether bcrypt.checkpw ran in the current call
    unlocked,   \* whether the current call executed the "Unlock account" UPDATE
    lastAudit,  \* action of the audit_log entry the handler wrote last
    rotation_hours, \* CallbackCrypto.rotation_hours
    sha256Of,   \* hashlib.sha256 on "seed:date": date -> index of the digest
    sent,       \* whether encrypt_callback has produced a payload
    payload,    \* the base64 text encrypt_callback returned
    plain,      \* the plaintext given to encrypt_callback
    encTime,    \* the clock when encrypt_callback ran
    dpc,        \* position of the decrypt_callback call
    dTry,       \* its try_previous argument
    dTime,      \* the clock read for the current key
    dTime2,     \* the clock read for the previous key
    dResult,    \* what decrypt_callback returned
    dKeys,      \* the period starts (hours) of the keys the call tried, in order
    xpc,        \* position of the XORCipher exercise
    xKey,       \* XORCipher.key
    xData,      \* the bytes given to _xor_bytes
    xOut1,      \* _xor_bytes(xData)
    xOut2,      \* _xor_bytes(_xor_bytes(xData))
    kCur,       \* the last generate_key_for_date call: its arguments and result
    kPrev,      \* an earlier generate_key_for_date call, kept for comparison
    dCur,       \* the last generate_domain_list call: its arguments and result
    dPrev,      \* an earlier generate_domain_list call, kept for comparison
    regBody,    \* the body of the registration request in flight (JSON text)
    regSent,    \* what the client meant by the request in flight
    callbacks,  \* the rows of the ssh_callbacks table, oldest first
    regLog,     \* the registration requests served so far, with their results
    resp,       \* what login() answered: a page, a redirect or an exception
    auditLog,   \* the rows of the audit_log table, oldest first
    storeUp,    \* whether INSERT INTO audit_log can succeed
    auditRaised \* whether the last direct audit_log call raised

authVars == <<users, pc, req, row, ret, outcome, checked, unlocked, lastAudit,
              resp>>

cryptoVars == <<rotation_hours, sha256Of, sent, payload, plain, encTime,
                dpc, dTry, dTime, dTime2, dResult, dKeys>>

xorVars == <<xpc, xKey, xData, xOut1, xOut2>>

keyVars == <<kCur, kPrev>>

auditVars == <<auditLog, storeUp, auditRaised>>

domainVars == <<dCur, dPrev>>

regVars == <<regBody, regSent, callbacks, regLog>>

extVars == <<keyVars, auditVars, domainVars, regVars>>

vars == <<now, authVars, cryptoVars, xorVars, extVars>>

----------------------------------------------------------------------------
(* Bounds of the model *)

StartTime == 1440       \* the clock value of the initial state (minutes)
TickStep == 15          \* minutes added by one step of the clock
MaxElapsed == 60        \* the clock stops this many minutes after StartTime
CryptoStep == 750       \* minutes added by one step of the clock (key rotation)
CryptoElapsed == 3750   \* the clock stops this many minutes after StartTime
MaxLen == 2             \* longest plaintext, in characters
NumDigests == 4         \* number of distinct digest values
MaxDataLen == 3         \* longest byte string given to _xor_bytes
MaxKeyLen == 2          \* longest XORCipher key

----------------------------------------------------------------------------
(* app_secure.py : users table, verify_password, login *)

NULL == -1
THRESHOLD == 5
LOCKOUT_MINUTES == 30

Procs == {"h1", "h2"}
Users == {"admin", "operator"}
Usernames == Users \cup {"nobody"}
Passwords == {"pwA", "pwB"}

UserId == [u \in Users |-> IF u = "admin" THEN 1 ELSE 2]

\* the password whose salted hash is stored in password_hash
StoredPassword == [u \in Users |-> IF u = "admin" THEN "pwA" ELSE "pwB"]

\* bcrypt.checkpw(sha512_hash(password + salt), password_hash)
checkpw(password, u) == password = StoredPassword[u]

Failure == [success |-> FALSE, user_id |-> NULL]
Success(u) == [success |-> TRUE, user_id |-> UserId[u]]
NoResult == [success |-> FALSE, user_id |-> -2]

NoRow == [failed_attempts |-> 0, locked_until |-> NULL]
NoReq == [username |-> "nobody", password |-> "pwA"]

\* if locked_until: if datetime.fromisoformat(locked_until) > datetime.utcnow()
AccountLockedMut(locked_until, t) == locked_until # NULL /\ locked_until < t
AccountLocked(locked_until, t) == locked_until # NULL /\ locked_until > t

\* UPDATE users SET ... WHERE id = ?, committed: the row of u becomes r
UpdateUserMut(table, u, r) == [b \in DOMAIN table |-> r]
UpdateUser(table, u, r) == [table EXCEPT ![u] = r]

\* UPDATE users SET locked_until = NULL, failed_attempts = 0
UnlockRowMut(r) == [r EXCEPT !.failed_attempts = 0]
UnlockRow(r) == [r EXCEPT !.locked_until = NULL, !.failed_attempts = 0]

\* UPDATE users SET failed_attempts = 0, last_login = ?
SuccessRowMut(r) == r
SuccessRow(r) == [r EXCEPT !.failed_attempts = 0]

\* failed_attempts += 1, then one of the two UPDATEs of the else branch
FailedRowMut(r, failed_attempts, t) ==
    IF failed_attempts > THRESHOLD
    THEN [r EXCEPT !.failed_attempts = failed_attempts,
                   !.locked_until = t + LOCKOUT_MINUTES]
    ELSE [r EXCEPT !.failed_attempts = failed_attempts]
FailedRow(r, failed_attempts, t) ==
    IF failed_attempts >= THRESHOLD
    THEN [r EXCEPT !.failed_attempts = failed_attempts,
                   !.locked_until = t + LOCKOUT_MINUTES]
    ELSE [r EXCEPT !.failed_attempts = failed_attempts]

\* audit_log(action, ...) as called by login
AuditActionOfMut(success) == "LOGIN_FAILED"
AuditActionOf(success) == IF success THEN "LOGIN_SUCCESS" ELSE "LOGIN_FAILED"

\* what login returns after audit_log: redirect(url_for('dashboard')) or the
\* login page with an error
LoginResponse(success) == IF success THEN "dashboard" ELSE "login_error"

----------------------------------------------------------------------------
(* crypto_utils.py : XORCipher *)

\* a ^ b on Python ints
RECURSIVE BitXor(_, _)
BitXor(a, b) ==
    IF a = 0 THEN b
    ELSE IF b = 0 THEN a
    ELSE (((a % 2) + (b % 2)) % 2) + (2 * BitXor(a \div 2, b \div 2))

\* XORCipher._xor_bytes with self.key = key
XorBytesMut(data, key) ==
    [i \in 1..(IF Len(data) < Len(key) THEN Len(data) ELSE Len(key)) |->
        BitXor(data[i], key[i])]
XorBytes(data, key) ==
    [i \in 1..Len(data) |-> BitXor(data[i], key[((i - 1) % Len(key)) + 1])]

\* str.encode('utf-8') of one character
Utf8Char(cp) ==
    IF cp < 128 THEN <<cp>>
    ELSE IF cp < 2048 THEN <<192 + (cp \div 64), 128 + (cp % 64)>>
    ELSE IF cp < 65536
         THEN <<224 + (cp \div 4096), 128 + ((cp \div 64) % 64), 128 + (cp % 64)>>
    ELSE <<240 + (cp \div 262144), 128 + ((cp \div 4096) % 64),
           128 + ((cp \div 64) % 64), 128 + (cp % 64)>>

\* plaintext.encode('utf-8')
RECURSIVE EncodeUtf8(_)
EncodeUtf8(str) ==
    IF str = <<>> THEN <<>> ELSE Utf8Char(Head(str)) \o EncodeUtf8(Tail(str))

IsCont(x) == x \in 128..191

\* the second byte allowed after lead byte b1 of a 3- or 4-byte sequence
SecondOk(b1, b2) ==
    IF b1 = 224 THEN b2 \in 160..191
    ELSE IF b1 = 237 THEN b2 \in 128..159
    ELSE IF b1 = 240 THEN b2 \in 144..191
    ELSE IF b1 = 244 THEN b2 \in 128..143
    ELSE IsCont(b2)

DecodeError == [ok |-> FALSE, str |-> <<>>]

\* plaintext_bytes.decode('utf-8'), strict: the characters or a decode error
RECURSIVE Utf8From(_, _, _)
Utf8From(b, i, acc) ==
    IF i > Len(b) THEN [ok |-> TRUE, str |-> acc]
    ELSE LET b1 == b[i] IN
         IF b1 < 128 THEN Utf8From(b, i + 1, Append(acc, b1))
         ELSE IF b1 \in 194..223
              THEN IF i + 1 <= Len(b) /\ IsCont(b[i + 1])
                   THEN Utf8From(b, i + 2,
                            Append(acc, ((b1 - 192) * 64) + (b[i + 1] - 128)))
                   ELSE DecodeError
         ELSE IF b1 \in 224..239
              THEN IF /\ i + 2 <= Len(b)
                      /\ SecondOk(b1, b[i + 1])
                      /\ IsCont(b[i + 2])
                   THEN Utf8From(b, i + 3,
                            Append(acc, ((b1 - 224) * 4096)
                                        + ((b[i + 1] - 128) * 64)
                                        + (b[i + 2] - 128)))
                   ELSE DecodeError
         ELSE IF b1 \in 240..244
              THEN IF /\ i + 3 <= Len(b)
                      /\ SecondOk(b1, b[i + 1])
                      /\ IsCont(b[i + 2])
                      /\ IsCont(b[i + 3])
                   THEN Utf8From(b, i + 4,
                            Append(acc, ((b1 - 240) * 262144)
                                        + ((b[i + 1] - 128) * 4096)
                                        + ((b[i + 2] - 128) * 64)
                                        + (b[i + 3] - 128)))
                   ELSE DecodeError
         ELSE DecodeError

DecodeUtf8(b) == Utf8From(b, 1, <<>>)

\* Characters of a base64 text: 0..63 are the alphabet A-Za-z0-9+/ by value,
\* PadChar is '=', NonAlphabetChar an ASCII character outside the alphabet,
\* NonAsciiChar a character above U+007F.
PadChar == 64
NonAlphabetChar == 65
NonAsciiChar == 66

\* base64.b64encode(b).decode('ascii')
RECURSIVE B64EncodeMut(_)
B64EncodeMut(b) ==
    IF Len(b) = 0 THEN <<>>
    ELSE IF Len(b) = 1 THEN <<b[1] \div 4, (b[1] % 4) * 16>>
    ELSE IF Len(b) = 2
         THEN <<b[1] \div 4, ((b[1] % 4) * 16) + (b[2] \div 16), (b[2] % 16) * 4>>
    ELSE <<b[1] \div 4, ((b[1] % 4) * 16) + (b[2] \div 16),
           ((b[2] % 16) * 4) + (b[3] \div 64), b[3] % 64>>
         \o B64EncodeMut(SubSeq(b, 4, Len(b)))
RECURSIVE B64Encode(_)
B64Encode(b) ==
    IF Len(b) = 0 THEN <<>>
    ELSE IF Len(b) = 1 THEN <<b[1] \div 4, (b[1] % 4) * 16, PadChar, PadChar>>
    ELSE IF Len(b) = 2
         THEN <<b[1] \div 4, ((b[1] % 4) * 16) + (b[2] \div 16), (b[2] % 16) * 4, PadChar>>
    ELSE <<b[1] \div 4, ((b[1] % 4) * 16) + (b[2] \div 16),
           ((b[2] % 16) * 4) + (b[3] \div 64), b[3] % 64>>
         \o B64Encode(SubSeq(b, 4, Len(b)))

B64Error == [ok |-> FALSE, bytes |-> <<>>]

\* binascii.a2b_base64 in its default, non-strict mode: quad is the position
\* in the current group of four, left the bits carried over, pads the number
\* of '=' seen in a row
RECURSIVE A2bBase64(_, _, _, _, _, _)
A2bBase64(t, i, quad, left, pads, out) ==
    IF i > Len(t)
    THEN IF quad # 0 THEN B64Error ELSE [ok |-> TRUE, bytes |-> out]
    ELSE LET ch == t[i] IN
         IF ch = PadChar
         THEN IF quad >= 2 /\ quad + pads + 1 >= 4
              THEN [ok |-> TRUE, bytes |-> out]
              ELSE A2bBase64(t, i + 1, quad, left,
                             IF quad >= 2 THEN pads + 1 ELSE pads, out)
         ELSE IF ch > PadChar
              THEN A2bBase64(t, i + 1, quad, left, pads, out)
         ELSE IF quad = 0 THEN A2bBase64(t, i + 1, 1, ch, 0, out)
         ELSE IF quad = 1
              THEN A2bBase64(t, i + 1, 2, ch % 16, 0,
                             Append(out, (left * 4) + (ch \div 16)))
         ELSE IF quad = 2
              THEN A2bBase64(t, i + 1, 3, ch % 4, 0,
                             Append(out, (left * 16) + (ch \div 4)))
         ELSE A2bBase64(t, i + 1, 0, 0, 0, Append(out, (left * 64) + ch))

\* base64.b64decode(ciphertext): a str must be ASCII, then a2b_base64
B64Decode(t) ==
    IF \E i \in 1..Len(t) : t[i] = NonAsciiChar
    THEN B64Error
    ELSE A2bBase64(t, 1, 0, 0, 0, <<>>)

\* XORCipher(key).encrypt(plaintext)
CipherEncrypt(key, plaintext) == B64Encode(XorBytes(EncodeUtf8(plaintext), key))

\* XORCipher(key).decrypt(ciphertext): the plaintext, or the ValueError
CipherDecrypt(key, ciphertext) ==
    LET d == B64Decode(ciphertext) IN
    IF ~d.ok THEN DecodeError ELSE DecodeUtf8(XorBytes(d.bytes, key))

----------------------------------------------------------------------------
(* crypto_utils.py : DGAKeyDerivation, CallbackCrypto *)

KEY_LENGTH == 32
RotationChoices == {12, 24}

\* the dates the clock of the model can show, as days since the epoch
Days == 0..((StartTime + CryptoElapsed) \div 1440)

\* The digest values of the model: NumDigests byte strings of 32 bytes.
\* Values k and k + 2 agree on the top bit of every byte, values k and k + 1
\* differ in it.
DigestValue(k) ==
    [i \in 1..32 |-> ((k % 2) * 128) + (((k * 37) + (i * 11)) % 128)]

\* every collision-free assignment of digest values to dates
DigestTables ==
    {f \in [Days -> 0..(NumDigests - 1)] :
        \A d, e \in Days : d # e => f[d] # f[e]}

\* hashlib.sha256(f"{seed}:{date_str}".encode()).digest()
Sha256(date) == DigestValue(sha256Of[date])

\* date.strftime("%Y-%m-%d") of utcfromtimestamp(hours * 3600): the calendar day
DateStr(hours) == hours \div 24

\* generate_key_for_date(date, "sha256", 32), date given in hours since the epoch
GenerateKeyForDate(hours) == SubSeq(Sha256(DateStr(hours)), 1, KEY_LENGTH)

\* int(t.timestamp() / 3600), then the start of the rotation period
PeriodStartHoursMut(t, rh) == (((t \div 60) \div 24) * 24)
PeriodStartHours(t, rh) == (((t \div 60) \div rh) * rh)

\* generate_rotating_key(rotation_hours, algorithm) called at clock value t
GenerateRotatingKey(t, rh) == GenerateKeyForDate(PeriodStartHours(t, rh))

\* decrypt_callback: previous_date = utcnow() - timedelta(hours=rotation_hours),
\* then the start of its rotation period
PreviousPeriodMut(t, rh) == PeriodStartHours(t - (2 * rh * 60), rh)
PreviousPeriod(t, rh) == PeriodStartHours(t - (rh * 60), rh)

\* decrypt_callback: "Try previous rotation period"
PreviousKey(t, rh) == GenerateKeyForDate(PreviousPeriod(t, rh))

CodePoints == {65, 233}     \* 'A', U+00E9

RECURSIVE StringsUpTo(_)
StringsUpTo(n) ==
    IF n = 0 THEN {<<>>}
    ELSE LET S == StringsUpTo(n - 1) IN
         S \cup {Append(str, c) : str \in {x \in S : Len(x) = n - 1}, c \in CodePoints}

Plaintexts == StringsUpTo(MaxLen)

None == [ok |-> FALSE, str |-> <<>>]

CryptoIdle ==
    /\ rotation_hours = 24
    /\ sha256Of = [d \in Days |-> d]
    /\ sent = FALSE
    /\ payload = <<>>
    /\ plain = <<>>
    /\ encTime = 0
    /\ dpc = "idle"
    /\ dTry = FALSE
    /\ dTime = 0
    /\ dTime2 = 0
    /\ dResult = None
    /\ dKeys = <<>>

\* CallbackCrypto(seed, rotation_hours, "sha256")
CryptoInit ==
    /\ rotation_hours \in RotationChoices
    /\ sha256Of \in DigestTables
    /\ sent = FALSE
    /\ payload = <<>>
    /\ plain = <<>>
    /\ encTime = 0
    /\ dpc = "idle"
    /\ dTry = FALSE
    /\ dTime = 0
    /\ dTime2 = 0
    /\ dResult = None
    /\ dKeys = <<>>

\* the clock advances, while no result is waiting to be returned
CryptoTick ==
    /\ dpc # "done"
    /\ now + CryptoStep <= StartTime + CryptoElapsed
    /\ now' = now + CryptoStep
    /\ UNCHANGED <<extVars, authVars, cryptoVars, xorVars>>

\* CallbackCrypto.encrypt_callback(data)
EncryptCallback(data) ==
    /\ dpc = "idle"
    /\ sent' = TRUE
    /\ plain' = data
    /\ encTime' = now
    /\ payload' = CipherEncrypt(GenerateRotatingKey(now, rotation_hours), data)
    /\ UNCHANGED <<extVars, now, authVars, xorVars, rotation_hours, sha256Of,
                   dpc, dTry, dTime, dTime2, dResult, dKeys>>

\* CallbackCrypto.decrypt_callback(payload, try_previous): "Try current key"
DecryptCurrent(try_previous) ==
    /\ sent
    /\ dpc = "idle"
    /\ dTry' = try_previous
    /\ dTime' = now
    /\ dTime2' = now
    /\ dKeys' = <<PeriodStartHours(now, rotation_hours)>>
    /\ LET r == CipherDecrypt(GenerateRotatingKey(now, rotation_hours), payload) IN
       IF r.ok
       THEN dResult' = r /\ dpc' = "done"
       ELSE IF try_previous
            THEN dResult' = None /\ dpc' = "previous"
            ELSE dResult' = None /\ dpc' = "done"
    /\ UNCHANGED <<extVars, now, authVars, xorVars, rotation_hours, sha256Of,
                   sent, payload, plain, encTime>>

\* decrypt_callback: "Try previous rotation period", then return
DecryptPrevious ==
    /\ dpc = "previous"
    /\ dTime2' = now
    /\ dKeys' = Append(dKeys, PreviousPeriod(now, rotation_hours))
    /\ LET r == CipherDecrypt(PreviousKey(now, rotation_hours), payload) IN
       dResult' = IF r.ok THEN r ELSE None
    /\ dpc' = "done"
    /\ UNCHANGED <<extVars, now, authVars, xorVars, rotation_hours, sha256Of,
                   sent, payload, plain, encTime, dTry, dTime>>

\* decrypt_callback has returned and its caller has taken the result
DecryptReturn ==
    /\ dpc = "done"
    /\ dpc' = "idle"
    /\ dTry' = FALSE
    /\ dTime' = 0
    /\ dTime2' = 0
    /\ dResult' = None
    /\ dKeys' = <<>>
    /\ UNCHANGED <<extVars, now, authVars, xorVars, rotation_hours, sha256Of,
                   sent, payload, plain, encTime>>

----------------------------------------------------------------------------
(* XORCipher exercised on its own *)

XorByteValues == {0, 90, 255}

RECURSIVE BytesUpTo(_)
BytesUpTo(n) ==
    IF n = 0 THEN {<<>>}
    ELSE LET S == BytesUpTo(n - 1) IN
         S \cup {Append(b, c) : b \in {x \in S : Len(x) = n - 1}, c \in XorByteValues}

XorIdle ==
    /\ xpc = "idle"
    /\ xKey = <<>>
    /\ xData = <<>>
    /\ xOut1 = <<>>
    /\ xOut2 = <<>>

\* XORCipher(key): an empty key raises ValueError
XorInit ==
    /\ xKey \in BytesUpTo(MaxKeyLen)
    /\ xData \in BytesUpTo(MaxDataLen)
    /\ xpc = IF xKey = <<>> THEN "invalid_key" ELSE "ready"
    /\ xOut1 = <<>>
    /\ xOut2 = <<>>

\* cipher._xor_bytes(data)
XorFirst ==
    /\ xpc = "ready"
    /\ xOut1' = XorBytes(xData, xKey)
    /\ xpc' = "once"
    /\ UNCHANGED <<extVars, now, authVars, cryptoVars, xKey, xData, xOut2>>

\* cipher._xor_bytes(cipher._xor_bytes(data))
XorSecond ==
    /\ xpc = "once"
    /\ xOut2' = XorBytes(xOut1, xKey)
    /\ xpc' = "twice"
    /\ UNCHANGED <<extVars, now, authVars, cryptoVars, xKey, xData, xOut1>>

\* XORCipher.decrypt exercised on its own

MaxTextLen == 5         \* longest text given to XORCipher.decrypt

\* characters of the texts given to decrypt: 'Q', 'h', '=', one ASCII
\* character outside the alphabet, one character above U+007F
TextChars == {16, 33, PadChar, NonAlphabetChar, NonAsciiChar}

RECURSIVE TextsUpTo(_)
TextsUpTo(n) ==
    IF n = 0 THEN {<<>>}
    ELSE LET S == TextsUpTo(n - 1) IN
         S \cup {Append(t, c) : t \in {x \in S : Len(x) = n - 1}, c \in TextChars}

\* XORCipher(key) with a non-empty key, and a text for decrypt
DecryptInit ==
    /\ xKey \in BytesUpTo(MaxKeyLen) \ {<<>>}
    /\ xData \in TextsUpTo(MaxTextLen)
    /\ xpc = "ready"
    /\ xOut1 = <<>>
    /\ xOut2 = <<>>

\* cipher.decrypt(ciphertext): b64decode, then _xor_bytes on what it returned,
\* then decode('utf-8'); an exception of any of them becomes the ValueError
XorDecrypt ==
    /\ xpc = "ready"
    /\ LET d == B64Decode(xData) IN
       IF d.ok
       THEN /\ xOut1' = XorBytes(d.bytes, xKey)
            /\ xpc' = "once"
       ELSE /\ xOut1' = <<>>
            /\ xpc' = "rejected"
    /\ dResult' = CipherDecrypt(xKey, xData)
    /\ UNCHANGED <<extVars, now, authVars, xKey, xData, xOut2, rotation_hours,
                   sha256Of, sent, payload, plain, encTime, dpc, dTry, dTime,
                   dTime2, dKeys>>

----------------------------------------------------------------------------
(* crypto_utils.py : DGAKeyDerivation.generate_key_for_date, every algorithm *)
(* and key length.  Digests are kept symbolic here: a digest byte is the     *)
(* triple of the algorithm, the hashed bytes and the position of the byte,   *)
(* so that two digests agree exactly when algorithm and input agree.  A byte *)
(* of the hashed text is a triple of the same shape with no input.           *)

KeyStep == 1440         \* minutes added by one step of the clock (key calls)
KeyElapsed == 1500      \* the clock stops this many minutes after StartTime

Algorithms == {"sha256", "sha512", "md5", "sha1"}

Seeds == {1, 2}

NoDate == -1            \* date = None

KeyDates == {NoDate, 24, 30, 48}    \* datetimes, in hours since the epoch

KeyLengths == {1, 16, 17, 32, 49, 64, 65}

\* one character of a str, UTF-8 encoded
Chr(c) == <<"chr", <<>>, c>>

\* f"{self.seed}": the bytes of the seed, kept as one symbol per seed
SeedText(seed) == << <<"seed", <<>>, seed>> >>

\* date.strftime("%Y-%m-%d"): the bytes of the calendar day, one symbol per day
DateText(hours) == << <<"date", <<>>, DateStr(hours)>> >>

\* hash_input = f"{self.seed}:{date_str}".encode('utf-8')
HashInput(seed, hours) == SeedText(seed) \o <<Chr(58)>> \o DateText(hours)

\* hashlib's digest_size
DigestSize(algorithm) ==
    IF algorithm = "sha512" THEN 64
    ELSE IF algorithm = "md5" THEN 16
    ELSE 32

\* hashlib.<algorithm>(input).digest()
HashlibDigest(algorithm, input) ==
    [i \in 1..DigestSize(algorithm) |-> <<algorithm, input, i>>]

\* the if / elif / else on algorithm: any other name means sha256
SelectAlgorithm(algorithm) ==
    IF algorithm = "sha512" THEN "sha512"
    ELSE IF algorithm = "md5" THEN "md5"
    ELSE "sha256"

\* "Extend key if needed": the while loop
RECURSIVE ExtendKey(_, _, _)
ExtendKey(key_material, hash_input, key_length) ==
    IF Len(key_material) < key_length
    THEN ExtendKey(key_material
                       \o HashlibDigest("sha256", key_material \o hash_input),
                   hash_input, key_length)
    ELSE key_material

TruncateMut(key_material, key_length) ==
    key_material

\* return key_material[:key_length]
Truncate(key_material, key_length) ==
    SubSeq(key_material, 1, key_length)

DateOrNowMut(date, t) == t \div 60

\* "if date is None: date = datetime.utcnow()"
DateOrNow(date, t) == IF date = NoDate THEN t \div 60 ELSE date

\* DGAKeyDerivation(seed).generate_key_for_date(date, algorithm, key_length)
\* called at clock value t
generate_key_for_date(seed, date, algorithm, key_length, t) ==
    LET hash_input == HashInput(seed, DateOrNow(date, t))
        key_material == HashlibDigest(SelectAlgorithm(algorithm), hash_input)
    IN Truncate(ExtendKey(key_material, hash_input, key_length), key_length)

NoCall == [called |-> FALSE, seed |-> 0, date |-> NoDate, algorithm |-> "",
           key_length |-> 0, key |-> <<>>]

KeyIdle ==
    /\ kCur = NoCall
    /\ kPrev = NoCall

\* the clock advances by a day
KeyTick ==
    /\ now + KeyStep <= StartTime + KeyElapsed
    /\ now' = now + KeyStep
    /\ UNCHANGED <<authVars, cryptoVars, xorVars, extVars>>

\* one call of generate_key_for_date
KeyCall(seed, date, algorithm, key_length) ==
    /\ kCur' = [called |-> TRUE, seed |-> seed, date |-> date,
                algorithm |-> algorithm, key_length |-> key_length,
                key |-> generate_key_for_date(seed, date, algorithm,
                                              key_length, now)]
    /\ UNCHANGED <<now, authVars, cryptoVars, xorVars, kPrev, auditVars,
                   domainVars, regVars>>

\* the caller keeps the key of the last call
KeyKeep ==
    /\ kCur.called
    /\ ~kPrev.called
    /\ kPrev' = kCur
    /\ UNCHANGED <<now, authVars, cryptoVars, xorVars, kCur, auditVars,
                   domainVars, regVars>>

----------------------------------------------------------------------------
(* crypto_utils.py and client_callback.py : generate_rotating_key, with the  *)
(* digests kept symbolic as in generate_key_for_date above.                  *)

RotStep == 425          \* minutes added by one step of the clock (rotation)
RotElapsed == 2940      \* the clock stops this many minutes after StartTime

\* rotation_hours of the instances compared
RotationPeriods == {1, 5, 12, 24, 36}

RotLengths == {16, 32, 33}

\* crypto_utils.DGAKeyDerivation(seed).generate_rotating_key(rotation_hours,
\* algorithm, key_length) called at clock value t
generate_rotating_key(seed, rh, algorithm, key_length, t) ==
    generate_key_for_date(seed, PeriodStartHours(t, rh), algorithm, key_length, t)

client_generate_rotating_keyMut(seed, rh, algorithm, key_length, t) ==
    LET period_start_hours == (((t \div 60) \div rh) * rh)
        hash_input == SeedText(seed) \o <<Chr(58)>> \o DateText(period_start_hours)
        key_material == IF algorithm = "sha512"
                        THEN HashlibDigest("sha512", hash_input)
                        ELSE IF algorithm = "md5"
                        THEN HashlibDigest("md5", hash_input)
                        ELSE IF algorithm = "sha1"
                        THEN HashlibDigest("sha1", hash_input)
                        ELSE HashlibDigest("sha256", hash_input)
    IN SubSeq(ExtendKey(key_material, hash_input, key_length), 1, key_length)

\* client_callback.DGAKeyDerivation(seed).generate_rotating_key(rotation_hours,
\* algorithm, key_length) called at clock value t
client_generate_rotating_key(seed, rh, algorithm, key_length, t) ==
    LET period_start_hours == (((t \div 60) \div rh) * rh)
        hash_input == SeedText(seed) \o <<Chr(58)>> \o DateText(period_start_hours)
        key_material == IF algorithm = "sha512"
                        THEN HashlibDigest("sha512", hash_input)
                        ELSE IF algorithm = "md5"
                        THEN HashlibDigest("md5", hash_input)
                        ELSE HashlibDigest("sha256", hash_input)
    IN SubSeq(ExtendKey(key_material, hash_input, key_length), 1, key_length)

\* the clock advances by some hours
RotTick ==
    /\ now + RotStep <= StartTime + RotElapsed
    /\ now' = now + RotStep
    /\ UNCHANGED <<authVars, cryptoVars, xorVars, extVars>>

\* one call of generate_rotating_key on the server, and one on a client with
\* the same seed and arguments at the same instant
RotatingKeyCall(seed, algorithm, key_length) ==
    /\ kCur' = [called |-> TRUE, seed |-> seed,
                date |-> PeriodStartHours(now, rotation_hours),
                algorithm |-> algorithm, key_length |-> key_length,
                key |-> generate_rotating_key(seed, rotation_hours, algorithm,
                                              key_length, now),
                client |-> client_generate_rotating_key(seed, rotation_hours,
                                                        algorithm, key_length, now),
                t |-> now]
    /\ UNCHANGED <<now, authVars, cryptoVars, xorVars, kPrev, auditVars,
                   domainVars, regVars>>

----------------------------------------------------------------------------
(* app_secure.py : audit_log.  A text is a sequence of pieces; a piece is a   *)
(* character or a fixed text that no sequence of other pieces spells.         *)

MaxAudit == 2           \* most rows in the audit_log table

\* a Python value: None, a str or an int (text holds str(value))
NoneV == [kind |-> "none", text |-> <<>>]

StrV(text) == [kind |-> "str", text |-> text]

IntV(n) == [kind |-> "int", text |-> <<ToString(n)>>]

\* "{value}" inside an f-string: str(value)
Format(v) == IF v.kind = "none" THEN <<"None">> ELSE v.text

\* datetime.utcnow().isoformat()
IsoFormat(t) == <<ToString(t)>>

\* audit_data = f"{timestamp}|{user_id}|{action}|{ip_address}|{details}"
AuditData(e) ==
    Format(e.timestamp) \o <<"|">> \o Format(e.user_id) \o <<"|">>
        \o Format(e.action) \o <<"|">> \o Format(e.ip_address) \o <<"|">>
        \o Format(e.details)

\* sha384_hash(data): hashlib.sha384(data.encode('utf-8')).hexdigest(), kept
\* symbolic
sha384_hash(data) == [algorithm |-> "sha384", input |-> data]

\* the row audit_log inserts
AuditRow(t, action, user_id, ip_address, details) ==
    LET e == [timestamp |-> StrV(IsoFormat(t)), user_id |-> user_id,
              action |-> StrV(<<action>>), ip_address |-> ip_address,
              details |-> details]
    IN [timestamp |-> e.timestamp, user_id |-> e.user_id, action |-> e.action,
        ip_address |-> e.ip_address, details |-> e.details,
        integrity_hash |-> sha384_hash(AuditData(e))]

\* texts a client can put into the login form
FormTexts ==
    {<<"a">>, <<"a", "|">>, <<"a", "|", "Invalid credentials for: ", "a">>}

\* request.headers.get('X-Forwarded-For', request.remote_addr)
AuditIps ==
    {StrV(<<"10.0.0.1">>), StrV(<<"i">>), StrV(<<"i", "|">>),
     StrV(<<"i", "|", "Invalid credentials for: ", "a">>)}

\* the calls of audit_log made by login and logout
AuditCalls ==
    {[action |-> "LOGIN_FAILED", user_id |-> NoneV,
      details |-> StrV(<<"Missing credentials">>)]}
    \cup {[action |-> "LOGIN_SUCCESS", user_id |-> IntV(UserId[u]),
           details |-> StrV(<<"User: ">> \o <<u>>)] : u \in Users}
    \cup {[action |-> "LOGIN_FAILED", user_id |-> NoneV,
           details |-> StrV(<<"Invalid credentials for: ">> \o text)] :
            text \in FormTexts}
    \cup {[action |-> "LOGOUT", user_id |-> IntV(UserId[u]),
           details |-> NoneV] : u \in Users}

AuditIdle ==
    /\ auditLog = <<>>
    /\ storeUp = TRUE
    /\ auditRaised = FALSE

\* INSERT INTO audit_log (...) VALUES (...), committed: one more row, after
\* the rows of the table
InsertAuditMut(table, r) ==
    IF table = <<>> THEN <<r>> ELSE [table EXCEPT ![Len(table)] = r]
InsertAudit(table, r) == Append(table, r)

\* audit_log(action, user_id, details) called in a request from ip_address
audit_log(action, user_id, details, ip_address) ==
    /\ Len(auditLog) < MaxAudit
    /\ IF storeUp
       THEN /\ auditLog' = InsertAudit(auditLog,
                                  AuditRow(now, action, user_id, ip_address, details))
            /\ auditRaised' = FALSE
       ELSE /\ auditRaised' = TRUE
            /\ UNCHANGED auditLog
    /\ UNCHANGED <<now, authVars, cryptoVars, xorVars, keyVars, storeUp,
                   domainVars, regVars>>

----------------------------------------------------------------------------
(* crypto_utils.py : DGAKeyDerivation.generate_domain_list.  The sha256      *)
(* digest of each "seed:date:i" is taken from the sample of digest values;   *)
(* different inputs take different digests.                                  *)

MaxCount == 3           \* largest count given to generate_domain_list

\* hashlib.sha256(f"{self.seed}:{date_str}:{i}".encode('utf-8')).digest()
DomainDigest(seed, date_str, i) ==
    DigestValue(((seed - 1) * 64) + ((date_str % 4) * 16) + (i % 16))

\* hexdigest(): two hexadecimal digits per byte, as numbers 0..15
HexDigest(digest) ==
    [m \in 1..(2 * Len(digest)) |->
        IF m % 2 = 1 THEN digest[(m + 1) \div 2] \div 16
        ELSE digest[m \div 2] % 16]

\* int(hash_hex[j:j+2], 16), j counted from 0
HexPair(hash_hex, j) == (16 * hash_hex[j + 1]) + hash_hex[j + 2]

\* tlds = ['.com', '.net', '.org', '.info', '.biz'], as character codes
Tlds ==
    << <<46, 99, 111, 109>>, <<46, 110, 101, 116>>, <<46, 111, 114, 103>>,
       <<46, 105, 110, 102, 111>>, <<46, 98, 105, 122>> >>

\* the body of "for i in range(count)": the i-th domain
Domain(seed, date_str, i) ==
    LET hash_hex == HexDigest(DomainDigest(seed, date_str, i))
        domain_length == 12 + (hash_hex[1] % 8)
        domain_name == [n \in 1..domain_length |->
                           97 + (HexPair(hash_hex, 2 * (n - 1)) % 26)]
        tld == Tlds[(hash_hex[Len(hash_hex)] % Len(Tlds)) + 1]
    IN SubSeq(domain_name, 1, domain_length) \o tld

generate_domain_listMut(seed, date, count, t) ==
    [n \in 1..count |-> Domain(seed, DateStr(t \div 60), n - 1)]

\* DGAKeyDerivation(seed).generate_domain_list(date, count) called at clock
\* value t
generate_domain_list(seed, date, count, t) ==
    [n \in 1..count |-> Domain(seed, DateStr(DateOrNow(date, t)), n - 1)]

NoList == [called |-> FALSE, seed |-> 0, date |-> NoDate, count |-> 0,
           domains |-> <<>>]

DomainIdle ==
    /\ dCur = NoList
    /\ dPrev = NoList

\* one call of generate_domain_list
DomainCall(seed, date, count) ==
    /\ dCur' = [called |-> TRUE, seed |-> seed, date |-> date, count |-> count,
                domains |-> generate_domain_list(seed, date, count, now)]
    /\ UNCHANGED <<now, authVars, cryptoVars, xorVars, keyVars, auditVars, dPrev,
                   regVars>>

\* the caller keeps the list of the last call
DomainKeep ==
    /\ dCur.called
    /\ ~dPrev.called
    /\ dPrev' = dCur
    /\ UNCHANGED <<now, authVars, cryptoVars, xorVars, keyVars, auditVars, dCur,
                   regVars>>

----------------------------------------------------------------------------
(* client_callback.py : send_callback_requests; app_secure.py :              *)
(* register_callback.  A JSON text is a sequence of character codes; a JSON  *)
(* value is a str, an int or a bool; a dict is a sequence of key/value pairs *)
(* in insertion order.                                                       *)

MaxReg == 2             \* most registration requests in a behaviour
RegStep == 60           \* minutes added by one step of the clock (registration)
RegElapsed == 90        \* the clock stops this many minutes after StartTime

JStr(s) == [kind |-> "str", s |-> s, n |-> 0]

JInt(n) == [kind |-> "int", s |-> <<>>, n |-> n]

JBool(b) == [kind |-> "bool", s |-> <<>>, n |-> IF b THEN 1 ELSE 0]

\* the characters of the keys the client and the server use
KeyChars(name) ==
    IF name = "hostname" THEN <<104, 111, 115, 116, 110, 97, 109, 101>>
    ELSE IF name = "username" THEN <<117, 115, 101, 114, 110, 97, 109, 101>>
    ELSE IF name = "ssh_port" THEN <<115, 115, 104, 95, 112, 111, 114, 116>>
    ELSE IF name = "os_type" THEN <<111, 115, 95, 116, 121, 112, 101>>
    ELSE IF name = "os_version" THEN <<111, 115, 95, 118, 101, 114, 115, 105, 111, 110>>
    ELSE IF name = "architecture" THEN <<97, 114, 99, 104, 105, 116, 101, 99, 116, 117, 114, 101>>
    ELSE IF name = "environment" THEN <<101, 110, 118, 105, 114, 111, 110, 109, 101, 110, 116>>
    ELSE IF name = "init_system" THEN <<105, 110, 105, 116, 95, 115, 121, 115, 116, 101, 109>>
    ELSE IF name = "ssh_implementation" THEN <<115, 115, 104, 95, 105, 109, 112, 108, 101, 109, 101, 110, 116, 97, 116, 105, 111, 110>>
    ELSE IF name = "api_key" THEN <<97, 112, 105, 95, 107, 101, 121>>
    ELSE IF name = "encrypted" THEN <<101, 110, 99, 114, 121, 112, 116, 101, 100>>
    ELSE <<100, 97, 116, 97>>      \* "data"

\* dict.get(key, default)
Get(d, key, default) ==
    IF \E i \in 1..Len(d) : d[i].k = key
    THEN d[CHOOSE i \in 1..Len(d) : d[i].k = key].v
    ELSE default

\* d[key] = value: a key already present keeps its place
Put(d, key, value) ==
    IF \E i \in 1..Len(d) : d[i].k = key
    THEN [i \in 1..Len(d) |-> IF d[i].k = key THEN [k |-> key, v |-> value] ELSE d[i]]
    ELSE Append(d, [k |-> key, v |-> value])

\* {**a, **b}
RECURSIVE Merge(_, _)
Merge(a, b) ==
    IF b = <<>> THEN a ELSE Merge(Put(a, b[1].k, b[1].v), Tail(b))

\* bool(value)
Truthy(v) ==
    IF v.kind = "str" THEN v.s # <<>> ELSE v.n # 0

\* json.dumps of the characters of a str: '"' and '\' are escaped
RECURSIVE EscapeChars(_)
EscapeChars(s) ==
    IF s = <<>> THEN <<>>
    ELSE (IF Head(s) \in {34, 92} THEN <<92, Head(s)>> ELSE <<Head(s)>>)
             \o EscapeChars(Tail(s))

DumpStr(s) == <<34>> \o EscapeChars(s) \o <<34>>

\* str(n) for n >= 0
RECURSIVE Digits(_)
Digits(n) ==
    IF n < 10 THEN <<48 + n>> ELSE Digits(n \div 10) \o <<48 + (n % 10)>>

\* json.dumps of a value: "...", digits, true or false
DumpValue(v) ==
    IF v.kind = "str" THEN DumpStr(v.s)
    ELSE IF v.kind = "int" THEN Digits(v.n)
    ELSE IF v.n = 1 THEN <<116, 114, 117, 101>>
    ELSE <<102, 97, 108, 115, 101>>

RECURSIVE DumpMembers(_)
DumpMembers(d) ==
    IF d = <<>> THEN <<>>
    ELSE DumpStr(d[1].k) \o <<58, 32>> \o DumpValue(d[1].v)
             \o (IF Len(d) > 1 THEN <<44, 32>> ELSE <<>>)
             \o DumpMembers(Tail(d))

\* json.dumps(d) of a dict
JsonDumps(d) == <<123>> \o DumpMembers(d) \o <<125>>

\* the character at position i, or -1 past the end
At(t, i) == IF i \in 1..Len(t) THEN t[i] ELSE -1

\* skip JSON whitespace
RECURSIVE SkipWs(_, _)
SkipWs(t, i) == IF At(t, i) \in {32, 9, 10, 13} THEN SkipWs(t, i + 1) ELSE i

JsonError == [ok |-> FALSE, val |-> JInt(0), next |-> 0]

\* the rest of a string whose opening quote has been read
RECURSIVE ScanString(_, _, _)
ScanString(t, i, acc) ==
    LET c == At(t, i) IN
    IF c = -1 THEN JsonError
    ELSE IF c = 34 THEN [ok |-> TRUE, val |-> JStr(acc), next |-> i + 1]
    ELSE IF c = 92
         THEN IF At(t, i + 1) \in {34, 92}
              THEN ScanString(t, i + 2, Append(acc, At(t, i + 1)))
              ELSE JsonError
    ELSE ScanString(t, i + 1, Append(acc, c))

RECURSIVE ScanInt(_, _, _)
ScanInt(t, i, n) ==
    IF At(t, i) \in 48..57
    THEN ScanInt(t, i + 1, (n * 10) + (At(t, i) - 48))
    ELSE [ok |-> TRUE, val |-> JInt(n), next |-> i]

\* whether text t continues with word at position i
Follows(t, i, word) ==
    /\ i + Len(word) - 1 <= Len(t)
    /\ SubSeq(t, i, i + Len(word) - 1) = word

\* one JSON value: a string, a number, true or false
ParseValue(t, i) ==
    IF At(t, i) = 34 THEN ScanString(t, i + 1, <<>>)
    ELSE IF At(t, i) \in 48..57 THEN ScanInt(t, i, 0)
    ELSE IF Follows(t, i, <<116, 114, 117, 101>>)
         THEN [ok |-> TRUE, val |-> JBool(TRUE), next |-> i + 4]
    ELSE IF Follows(t, i, <<102, 97, 108, 115, 101>>)
         THEN [ok |-> TRUE, val |-> JBool(FALSE), next |-> i + 5]
    ELSE JsonError

\* json.JSONDecodeError
NotJson == [ok |-> FALSE, dict |-> <<>>, next |-> 0]

\* the members of an object, from the first key on
RECURSIVE ParseMembers(_, _, _)
ParseMembers(t, i, acc) ==
    IF At(t, i) # 34 THEN NotJson
    ELSE LET key == ScanString(t, i + 1, <<>>) IN
         IF ~key.ok THEN NotJson
         ELSE LET c == SkipWs(t, key.next) IN
              IF At(t, c) # 58 THEN NotJson
              ELSE LET v == ParseValue(t, SkipWs(t, c + 1)) IN
                   IF ~v.ok THEN NotJson
                   ELSE LET m == SkipWs(t, v.next)
                            d == Put(acc, key.val.s, v.val)
                        IN IF At(t, m) = 44
                           THEN ParseMembers(t, SkipWs(t, m + 1), d)
                           ELSE IF At(t, m) = 125
                                THEN [ok |-> TRUE, dict |-> d, next |-> m + 1]
                                ELSE NotJson

\* json.loads(t) / request.get_json() of a text that holds one object
JsonLoads(t) ==
    LET i == SkipWs(t, 1) IN
    IF At(t, i) # 123 THEN NotJson
    ELSE LET j == SkipWs(t, i + 1)
             r == IF At(t, j) = 125
                  THEN [ok |-> TRUE, dict |-> <<>>, next |-> j + 1]
                  ELSE ParseMembers(t, j, <<>>)
         IN IF r.ok /\ SkipWs(t, r.next) = Len(t) + 1 THEN r ELSE NotJson

\* .decode('ascii') of base64 output: the character code of a base64 character
B64ToAscii(ch) ==
    IF ch < 26 THEN 65 + ch
    ELSE IF ch < 52 THEN 97 + (ch - 26)
    ELSE IF ch < 62 THEN 48 + (ch - 52)
    ELSE IF ch = 62 THEN 43
    ELSE IF ch = 63 THEN 47
    ELSE 61

\* the base64 character a character code stands for
AsciiToB64(c) ==
    IF c \in 65..90 THEN c - 65
    ELSE IF c \in 97..122 THEN (c - 97) + 26
    ELSE IF c \in 48..57 THEN (c - 48) + 52
    ELSE IF c = 43 THEN 62
    ELSE IF c = 47 THEN 63
    ELSE IF c = 61 THEN PadChar
    ELSE IF c < 128 THEN NonAlphabetChar
    ELSE NonAsciiChar

\* client_callback.py encrypt_data(data_str, seed): the key of the current
\* 24-hour period, XOR, base64
encrypt_data(data_str, t) ==
    LET payload64 == CipherEncrypt(GenerateRotatingKey(t, 24), data_str)
    IN [i \in 1..Len(payload64) |-> B64ToAscii(payload64[i])]

\* CALLBACK_CRYPTO.decrypt_callback(encrypted_data) called at clock value t
decrypt_callback(encrypted_data, t) ==
    LET text == [i \in 1..Len(encrypted_data) |-> AsciiToB64(encrypted_data[i])]
        r == CipherDecrypt(GenerateRotatingKey(t, rotation_hours), text)
        q == CipherDecrypt(PreviousKey(t, rotation_hours), text)
    IN IF r.ok THEN r ELSE IF q.ok THEN q ELSE None

\* API_KEY, and a key that is not API_KEY
API_KEY == <<107>>

ApiKeys == {API_KEY, <<120>>}

\* the body send_callback_requests posts at clock value t
send_callback_requests(api_key, env_data, encrypt, t) ==
    IF encrypt
    THEN JsonDumps(<<[k |-> KeyChars("api_key"), v |-> JStr(api_key)],
                     [k |-> KeyChars("encrypted"), v |-> JBool(TRUE)],
                     [k |-> KeyChars("data"),
                      v |-> JStr(encrypt_data(JsonDumps(env_data), t))]>>)
    ELSE JsonDumps(Merge(<<[k |-> KeyChars("api_key"), v |-> JStr(api_key)]>>,
                         env_data))

\* the attributes register_callback reads with data.get(name, default)
AttributeNames ==
    {"hostname", "username", "ssh_port", "os_type", "os_version",
     "architecture", "environment", "init_system", "ssh_implementation"}

\* the default of data.get: 22 for ssh_port, 'unknown' otherwise
DefaultOf(name) ==
    IF name = "ssh_port" THEN JInt(22) ELSE JStr(<<117, 110, 107, 110, 111, 119, 110>>)

\* "Extract data (works for both encrypted and unencrypted)"
Extract(data) ==
    [name \in AttributeNames |-> Get(data, KeyChars(name), DefaultOf(name))]

UseDecryptedMut(data, decrypted_data) == data

\* "Use decrypted data": data = decrypted_data
UseDecrypted(data, decrypted_data) == decrypted_data

\* the attribute maps a client reports: no entry or one entry
EnvMaps ==
    {<<>>,
     <<[k |-> KeyChars("hostname"), v |-> JStr(<<97>>)]>>,
     <<[k |-> KeyChars("hostname"), v |-> JStr(<<34>>)]>>,
     <<[k |-> KeyChars("ssh_port"), v |-> JInt(2222)]>>,
     <<[k |-> KeyChars("encrypted"), v |-> JBool(TRUE)]>>,
     <<[k |-> KeyChars("encrypted"), v |-> JBool(FALSE)]>>}

NoSent == [sent |-> FALSE, encrypt |-> FALSE, env_data |-> <<>>, api_key |-> <<>>]

RegIdle ==
    /\ regBody = <<>>
    /\ regSent = NoSent
    /\ callbacks = <<>>
    /\ regLog = <<>>

\* the clock advances, inside the rotation period
RegTick ==
    /\ now + RegStep <= StartTime + RegElapsed
    /\ now' = now + RegStep
    /\ UNCHANGED <<authVars, cryptoVars, xorVars, extVars>>

\* client: send_callback_requests(server_url, api_key, env_data, encrypt)
ClientSend(api_key, env_data, encrypt) ==
    /\ ~regSent.sent
    /\ Len(regLog) < MaxReg
    /\ regBody' = send_callback_requests(api_key, env_data, encrypt, now)
    /\ regSent' = [sent |-> TRUE, encrypt |-> encrypt, env_data |-> env_data,
                   api_key |-> api_key]
    /\ UNCHANGED <<now, authVars, cryptoVars, xorVars, keyVars, auditVars,
                   domainVars, callbacks, regLog>>

\* what a finished register_callback leaves behind: the audit row (or, when
\* audit_log raises, the same failure again in the except handler) and the
\* response
RegEnd(status, action, details, ip_address, stored, attrs) ==
    /\ IF storeUp
       THEN auditLog' = InsertAudit(auditLog,
                               AuditRow(now, action, NoneV, ip_address, details))
       ELSE UNCHANGED auditLog
    /\ regLog' = Append(regLog,
                        [encrypt |-> regSent.encrypt, env_data |-> regSent.env_data,
                         api_key |-> regSent.api_key,
                         status |-> IF storeUp THEN status ELSE "exception",
                         stored |-> stored, attrs |-> attrs])
    /\ callbacks' = IF stored
                    THEN Append(callbacks, [timestamp |-> now, attrs |-> attrs])
                    ELSE callbacks
    /\ regBody' = <<>>
    /\ regSent' = NoSent
    /\ UNCHANGED <<now, authVars, cryptoVars, xorVars, keyVars, domainVars,
                   storeUp, auditRaised>>

\* server: register_callback() on the request in flight
register_callback(ip_address) ==
    /\ regSent.sent
    /\ LET parsed == JsonLoads(regBody)
           data == parsed.dict
           key == Get(data, KeyChars("api_key"), JStr(<<>>))
           none == Extract(<<>>)
       IN
       IF ~parsed.ok \/ key.kind # "str"
       THEN RegEnd("500", "CALLBACK_ERROR", StrV(<<"str(e)">>), ip_address,
                   FALSE, none)
       ELSE IF data = <<>> \/ key.s # API_KEY
       THEN RegEnd("401", "API_AUTH_FAILED", StrV(<<"Invalid API key">>),
                   ip_address, FALSE, none)
       ELSE
       LET is_encrypted == Truthy(Get(data, KeyChars("encrypted"), JBool(FALSE)))
           encrypted_data == Get(data, KeyChars("data"), JStr(<<>>))
           decrypted_json == IF is_encrypted /\ encrypted_data.kind = "str"
                             THEN decrypt_callback(encrypted_data.s, now)
                             ELSE None
           decrypted_data == IF decrypted_json.ok THEN JsonLoads(decrypted_json.str)
                             ELSE NotJson
       IN
       IF is_encrypted /\ (~decrypted_json.ok \/ decrypted_json.str = <<>>)
       THEN RegEnd("400", "DECRYPT_ERROR",
                   StrV(<<"Failed to decrypt callback data">>), ip_address,
                   FALSE, none)
       ELSE IF is_encrypted /\ ~decrypted_data.ok
       THEN RegEnd("400", "DECRYPT_ERROR",
                   StrV(<<"Decrypted data is not valid JSON">>), ip_address,
                   FALSE, none)
       ELSE
       LET used == IF is_encrypted THEN UseDecrypted(data, decrypted_data.dict)
                   ELSE data
           attrs == Extract(used)
       IN RegEnd("200", "CALLBACK_REGISTERED",
                 StrV(<<"Hostname: ", ToString(attrs["hostname"]), ", IP: ">>
                          \o Format(ip_address)),
                 ip_address, TRUE, attrs)

ExtIdle == KeyIdle /\ AuditIdle /\ DomainIdle /\ RegIdle

----------------------------------------------------------------------------
(* app_secure.py : the initial state and the steps of login *)

AuthInit ==
    /\ users = [u \in Users |-> NoRow]
    /\ pc = [p \in Procs |-> "idle"]
    /\ req = [p \in Procs |-> NoReq]
    /\ row = [p \in Procs |-> NoRow]
    /\ ret = [p \in Procs |-> NoResult]
    /\ outcome = [p \in Procs |-> "none"]
    /\ checked = [p \in Procs |-> FALSE]
    /\ unlocked = [p \in Procs |-> FALSE]
    /\ lastAudit = [p \in Procs |-> "none"]
    /\ resp = [p \in Procs |-> "none"]

Init ==
    /\ now = StartTime
    /\ AuthInit
    /\ CryptoIdle
    /\ XorIdle
    /\ ExtIdle

\* the clock advances
Tick ==
    /\ now + TickStep <= StartTime + MaxElapsed
    /\ now' = now + TickStep
    /\ UNCHANGED <<extVars, authVars, cryptoVars, xorVars>>

\* login(), POST: the form is read; verify_password is entered
LoginStart(p, username, password) ==
    /\ pc[p] \in {"idle", "done"}
    /\ req' = [req EXCEPT ![p] = [username |-> username, password |-> password]]
    /\ row' = [row EXCEPT ![p] = NoRow]
    /\ ret' = [ret EXCEPT ![p] = NoResult]
    /\ outcome' = [outcome EXCEPT ![p] = "none"]
    /\ checked' = [checked EXCEPT ![p] = FALSE]
    /\ unlocked' = [unlocked EXCEPT ![p] = FALSE]
    /\ resp' = [resp EXCEPT ![p] = "none"]
    /\ pc' = [pc EXCEPT ![p] = "select"]
    /\ UNCHANGED <<extVars, now, users, lastAudit, cryptoVars, xorVars>>

\* login(), POST with a missing field: audit_log('LOGIN_FAILED') and return
LoginMissing(p) ==
    /\ pc[p] \in {"idle", "done"}
    /\ req' = [req EXCEPT ![p] = NoReq]
    /\ row' = [row EXCEPT ![p] = NoRow]
    /\ ret' = [ret EXCEPT ![p] = NoResult]
    /\ outcome' = [outcome EXCEPT ![p] = "missing"]
    /\ checked' = [checked EXCEPT ![p] = FALSE]
    /\ unlocked' = [unlocked EXCEPT ![p] = FALSE]
    /\ IF storeUp
       THEN /\ lastAudit' = [lastAudit EXCEPT ![p] = "LOGIN_FAILED"]
            /\ resp' = [resp EXCEPT ![p] = "login_error"]
       ELSE /\ resp' = [resp EXCEPT ![p] = "exception"]
            /\ UNCHANGED lastAudit
    /\ pc' = [pc EXCEPT ![p] = "done"]
    /\ UNCHANGED <<extVars, now, users, cryptoVars, xorVars>>

\* verify_password: SELECT ... FROM users WHERE username = ?; if not row: return
Select(p) ==
    /\ pc[p] = "select"
    /\ IF req[p].username \notin Users
       THEN /\ ret' = [ret EXCEPT ![p] = Failure]
            /\ outcome' = [outcome EXCEPT ![p] = "nouser"]
            /\ pc' = [pc EXCEPT ![p] = "audit"]
            /\ UNCHANGED row
       ELSE /\ row' = [row EXCEPT ![p] = users[req[p].username]]
            /\ pc' = [pc EXCEPT ![p] = "lockcheck"]
            /\ UNCHANGED <<ret, outcome>>
    /\ UNCHANGED <<extVars, now, users, req, checked, unlocked, lastAudit, resp,
                   cryptoVars, xorVars>>

\* verify_password: "Check if account is locked"
LockCheck(p) ==
    /\ pc[p] = "lockcheck"
    /\ LET u == req[p].username IN
       IF row[p].locked_until # NULL
       THEN IF AccountLocked(row[p].locked_until, now)
            THEN /\ ret' = [ret EXCEPT ![p] = Failure]
                 /\ outcome' = [outcome EXCEPT ![p] = "locked"]
                 /\ pc' = [pc EXCEPT ![p] = "audit"]
                 /\ UNCHANGED <<users, unlocked>>
            ELSE /\ users' = UpdateUser(users, u, UnlockRow(users[u]))
                 /\ unlocked' = [unlocked EXCEPT ![p] = TRUE]
                 /\ pc' = [pc EXCEPT ![p] = "checkpw"]
                 /\ UNCHANGED <<ret, outcome>>
       ELSE /\ pc' = [pc EXCEPT ![p] = "checkpw"]
            /\ UNCHANGED <<users, unlocked, ret, outcome>>
    /\ UNCHANGED <<extVars, now, req, row, checked, lastAudit, resp,
                   cryptoVars, xorVars>>

\* verify_password: "Verify password", with the UPDATE of either branch
CheckPassword(p) ==
    /\ pc[p] = "checkpw"
    /\ checked' = [checked EXCEPT ![p] = TRUE]
    /\ LET u == req[p].username IN
       IF checkpw(req[p].password, u)
       THEN /\ users' = UpdateUser(users, u, SuccessRow(users[u]))
            /\ ret' = [ret EXCEPT ![p] = Success(u)]
            /\ outcome' = [outcome EXCEPT ![p] = "accepted"]
            /\ UNCHANGED row
       ELSE /\ row' = [row EXCEPT ![p].failed_attempts = @ + 1]
            /\ users' = UpdateUser(users, u,
                            FailedRow(users[u], row[p].failed_attempts + 1, now))
            /\ ret' = [ret EXCEPT ![p] = Failure]
            /\ outcome' = [outcome EXCEPT ![p] = "mismatch"]
    /\ pc' = [pc EXCEPT ![p] = "audit"]
    /\ UNCHANGED <<extVars, now, req, unlocked, lastAudit, resp,
                   cryptoVars, xorVars>>

\* login(): audit_log of the outcome, then the response
LoginFinish(p) ==
    /\ pc[p] = "audit"
    /\ IF storeUp
       THEN /\ lastAudit' = [lastAudit EXCEPT ![p] = AuditActionOf(ret[p].success)]
            /\ resp' = [resp EXCEPT ![p] = LoginResponse(ret[p].success)]
       ELSE /\ resp' = [resp EXCEPT ![p] = "exception"]
            /\ UNCHANGED lastAudit
    /\ req' = [req EXCEPT ![p] = NoReq]
    /\ row' = [row EXCEPT ![p] = NoRow]
    /\ checked' = [checked EXCEPT ![p] = FALSE]
    /\ unlocked' = [unlocked EXCEPT ![p] = FALSE]
    /\ pc' = [pc EXCEPT ![p] = "done"]
    /\ UNCHANGED <<extVars, now, users, ret, outcome, cryptoVars, xorVars>>

\* verify_password is cancelled or aborted before it returns (an exception
\* leaves the function, the worker is stopped): nothing of the function runs
\* after this point, what it committed so far stays, and there is no handler
\* that rolls an earlier commit back
Abort(p) ==
    /\ pc[p] \in {"select", "lockcheck", "checkpw"}
    /\ outcome' = [outcome EXCEPT ![p] = "aborted"]
    /\ ret' = [ret EXCEPT ![p] = NoResult]
    /\ resp' = [resp EXCEPT ![p] = "exception"]
    /\ req' = [req EXCEPT ![p] = NoReq]
    /\ row' = [row EXCEPT ![p] = NoRow]
    /\ checked' = [checked EXCEPT ![p] = FALSE]
    /\ unlocked' = [unlocked EXCEPT ![p] = FALSE]
    /\ pc' = [pc EXCEPT ![p] = "done"]
    /\ UNCHANGED <<extVars, now, users, lastAudit, cryptoVars, xorVars>>

\* login(), POST with a missing field, with the row audit_log inserts
LoginMissingLogged(p, ip_address) ==
    /\ pc[p] \in {"idle", "done"}
    /\ req' = [req EXCEPT ![p] = NoReq]
    /\ row' = [row EXCEPT ![p] = NoRow]
    /\ ret' = [ret EXCEPT ![p] = NoResult]
    /\ outcome' = [outcome EXCEPT ![p] = "missing"]
    /\ checked' = [checked EXCEPT ![p] = FALSE]
    /\ unlocked' = [unlocked EXCEPT ![p] = FALSE]
    /\ IF storeUp
       THEN /\ auditLog' = InsertAudit(auditLog,
                               AuditRow(now, "LOGIN_FAILED", NoneV, ip_address,
                                        StrV(<<"Missing credentials">>)))
            /\ lastAudit' = [lastAudit EXCEPT ![p] = "LOGIN_FAILED"]
            /\ resp' = [resp EXCEPT ![p] = "login_error"]
       ELSE /\ resp' = [resp EXCEPT ![p] = "exception"]
            /\ UNCHANGED <<lastAudit, auditLog>>
    /\ pc' = [pc EXCEPT ![p] = "done"]
    /\ UNCHANGED <<now, users, cryptoVars, xorVars, keyVars, storeUp,
                   auditRaised, domainVars, regVars>>

\* login(): audit_log of the outcome, with the row it inserts, then the
\* response
LoginLogged(p, ip_address) ==
    /\ pc[p] = "audit"
    /\ IF storeUp
       THEN /\ auditLog' = InsertAudit(auditLog,
                               AuditRow(now, AuditActionOf(ret[p].success),
                                        IF ret[p].success
                                        THEN IntV(ret[p].user_id) ELSE NoneV,
                                        ip_address,
                                        IF ret[p].success
                                        THEN StrV(<<"User: ", req[p].username>>)
                                        ELSE StrV(<<"Invalid credentials for: ",
                                                    req[p].username>>)))
            /\ lastAudit' = [lastAudit EXCEPT ![p] = AuditActionOf(ret[p].success)]
            /\ resp' = [resp EXCEPT ![p] = LoginResponse(ret[p].success)]
       ELSE /\ resp' = [resp EXCEPT ![p] = "exception"]
            /\ UNCHANGED <<lastAudit, auditLog>>
    /\ req' = [req EXCEPT ![p] = NoReq]
    /\ row' = [row EXCEPT ![p] = NoRow]
    /\ checked' = [checked EXCEPT ![p] = FALSE]
    /\ unlocked' = [unlocked EXCEPT ![p] = FALSE]
    /\ pc' = [pc EXCEPT ![p] = "done"]
    /\ UNCHANGED <<now, users, ret, outcome, cryptoVars, xorVars, keyVars,
                   storeUp, auditRaised, domainVars, regVars>>

\* logout(): user_id = session.get('user_id'); the session holds the id of a
\* user who logged in before
logout(u, ip_address) ==
    /\ \E i \in 1..Len(auditLog) :
           /\ auditLog[i].action = StrV(<<"LOGIN_SUCCESS">>)
           /\ auditLog[i].user_id = IntV(UserId[u])
    /\ audit_log("LOGOUT", IntV(UserId[u]), NoneV, ip_address)

\* the audit store stops accepting writes (sqlite3.OperationalError)
StoreFails ==
    /\ storeUp
    /\ storeUp' = FALSE
    /\ UNCHANGED <<now, authVars, cryptoVars, xorVars, keyVars, auditLog,
                   auditRaised, domainVars, regVars>>

\* the audit store accepts writes again
StoreRecovers ==
    /\ ~storeUp
    /\ storeUp' = TRUE
    /\ UNCHANGED <<now, authVars, cryptoVars, xorVars, keyVars, auditLog,
                   auditRaised, domainVars, regVars>>

\* no handler other than p is inside a request
Alone(p) == \A q \in Procs \ {p} : pc[q] \in {"idle", "done"}

Handler(p) ==
    \/ \E username \in Usernames, password \in Passwords :
           LoginStart(p, username, password)
    \/ LoginMissing(p)
    \/ Select(p)
    \/ LockCheck(p)
    \/ CheckPassword(p)
    \/ LoginFinish(p)

\* requests are served one at a time
Next ==
    \/ Tick
    \/ \E p \in Procs : Alone(p) /\ Handler(p)

Spec == Init /\ [][Next]_vars

\* requests are served by concurrent threads (Flask's app.run), all of them
\* logins for the same identity
ConcHandler(p) ==
    \/ \E password \in Passwords : LoginStart(p, "admin", password)
    \/ Select(p)
    \/ LockCheck(p)
    \/ CheckPassword(p)
    \/ LoginFinish(p)

NextConc ==
    \/ Tick
    \/ \E p \in Procs : ConcHandler(p)

SpecConc == Init /\ [][NextConc]_vars

\* requests are served by concurrent threads, each for its own identity
IdentityOf == [p \in Procs |-> IF p = "h1" THEN "admin" ELSE "operator"]

TwoHandler(p) ==
    \/ \E password \in Passwords : LoginStart(p, IdentityOf[p], password)
    \/ Select(p)
    \/ LockCheck(p)
    \/ CheckPassword(p)
    \/ LoginFinish(p)

NextTwo ==
    \/ Tick
    \/ \E p \in Procs : TwoHandler(p)

SpecTwo == Init /\ [][NextTwo]_vars

\* requests are served one at a time, and a verify_password call may be
\* cancelled at any statement
NextAbort ==
    \/ Tick
    \/ \E p \in Procs : Alone(p) /\ (Handler(p) \/ Abort(p))

SpecAbort == Init /\ [][NextAbort]_vars

\* the callback cipher: encrypt_callback and decrypt_callback as time passes
InitCrypto ==
    /\ now = StartTime
    /\ AuthInit
    /\ CryptoInit
    /\ XorIdle
    /\ ExtIdle

NextCrypto ==
    \/ CryptoTick
    \/ \E data \in Plaintexts : EncryptCallback(data)
    \/ \E try_previous \in BOOLEAN : DecryptCurrent(try_previous)
    \/ DecryptPrevious
    \/ DecryptReturn

SpecCrypto == InitCrypto /\ [][NextCrypto]_vars

\* the XOR transform applied twice to every byte string and key
InitXor ==
    /\ now = StartTime
    /\ AuthInit
    /\ CryptoIdle
    /\ XorInit
    /\ ExtIdle

NextXor == XorFirst \/ XorSecond

SpecXor == InitXor /\ [][NextXor]_vars

\* XORCipher.decrypt applied to texts of every shape
InitDecrypt ==
    /\ now = StartTime
    /\ AuthInit
    /\ CryptoIdle
    /\ DecryptInit
    /\ ExtIdle

NextDecrypt == XorDecrypt

SpecDecrypt == InitDecrypt /\ [][NextDecrypt]_vars

\* generate_key_for_date called again and again as days pass
InitKey ==
    /\ now = StartTime
    /\ AuthInit
    /\ CryptoIdle
    /\ XorIdle
    /\ ExtIdle

\* once a key is kept, the calls that follow repeat its arguments or ask for
\* a single byte of today's key
Explored(seed, date, algorithm, key_length) ==
    kPrev.called =>
        \/ key_length = 1 /\ date = NoDate /\ algorithm = "sha1"
        \/ /\ seed = kPrev.seed
           /\ date = kPrev.date
           /\ algorithm = kPrev.algorithm
           /\ key_length = kPrev.key_length

NextKey ==
    \/ KeyTick
    \/ \E seed \in Seeds, date \in KeyDates, algorithm \in Algorithms,
          key_length \in KeyLengths :
            /\ Explored(seed, date, algorithm, key_length)
            /\ KeyCall(seed, date, algorithm, key_length)
    \/ KeyKeep

SpecKey == InitKey /\ [][NextKey]_vars

\* generate_rotating_key called again and again as hours pass, by instances
\* with one rotation period; once a key is kept, the calls that follow repeat
\* its arguments
InitRotate ==
    /\ now = StartTime
    /\ AuthInit
    /\ rotation_hours \in RotationPeriods
    /\ sha256Of = [d \in Days |-> d]
    /\ sent = FALSE
    /\ payload = <<>>
    /\ plain = <<>>
    /\ encTime = 0
    /\ dpc = "idle"
    /\ dTry = FALSE
    /\ dTime = 0
    /\ dTime2 = 0
    /\ dResult = None
    /\ dKeys = <<>>
    /\ XorIdle
    /\ ExtIdle

NextRotate ==
    \/ RotTick
    \/ \E seed \in Seeds, algorithm \in Algorithms, key_length \in RotLengths :
          /\ kPrev.called => /\ seed = kPrev.seed
                             /\ algorithm = kPrev.algorithm
                             /\ key_length = kPrev.key_length
          /\ RotatingKeyCall(seed, algorithm, key_length)
    \/ KeyKeep

SpecRotate == InitRotate /\ [][NextRotate]_vars

\* generate_domain_list called again and again as days pass; once a list is
\* kept, the calls that follow repeat its arguments or ask for today's list
NextDomain ==
    \/ KeyTick
    \/ \E seed \in Seeds, date \in KeyDates, count \in 0..MaxCount :
          /\ dPrev.called =>
                \/ date = NoDate
                \/ seed = dPrev.seed /\ date = dPrev.date /\ count = dPrev.count
          /\ DomainCall(seed, date, count)
    \/ DomainKeep

SpecDomain == InitKey /\ [][NextDomain]_vars

\* audit_log called by login and logout, while the audit store comes and goes
InitAudit ==
    /\ now = StartTime
    /\ AuthInit
    /\ CryptoIdle
    /\ XorIdle
    /\ ExtIdle

NextAudit ==
    \/ KeyTick
    \/ StoreFails
    \/ StoreRecovers
    \/ \E call \in AuditCalls, ip_address \in AuditIps :
          audit_log(call.action, call.user_id, call.details, ip_address)

SpecAudit == InitAudit /\ [][NextAudit]_vars

\* clients register, encrypted or not, inside one rotation period; a client
\* with a wrong API key sends the empty map
NextReg ==
    \/ RegTick
    \/ \E api_key \in ApiKeys, env_data \in EnvMaps, encrypt \in BOOLEAN :
          /\ api_key # API_KEY => (env_data = <<>> /\ ~encrypt)
          /\ ClientSend(api_key, env_data, encrypt)
    \/ register_callback(StrV(<<"10.0.0.1">>))

SpecReg == InitKey /\ [][NextReg]_vars

\* logins, logouts and registrations served one at a time, each writing its
\* audit rows
TrailIdle == (\A p \in Procs : pc[p] \in {"idle", "done"}) /\ ~regSent.sent

NextTrail ==
    \/ RegTick
    \/ \E p \in Procs :
          /\ Alone(p)
          /\ ~regSent.sent
          /\ \/ /\ Len(auditLog) < MaxAudit
                /\ \/ \E username \in Usernames, password \in Passwords :
                          LoginStart(p, username, password)
                   \/ LoginMissingLogged(p, StrV(<<"10.0.0.1">>))
             \/ Select(p)
             \/ LockCheck(p)
             \/ CheckPassword(p)
             \/ LoginLogged(p, StrV(<<"10.0.0.1">>))
    \/ /\ TrailIdle
       /\ \/ \E u \in Users : logout(u, StrV(<<"10.0.0.1">>))
          \/ /\ Len(auditLog) < MaxAudit
             /\ \/ ClientSend(<<120>>, <<>>, FALSE)
                \/ \E encrypt \in BOOLEAN :
                       ClientSend(API_KEY,
                                  <<[k |-> KeyChars("hostname"), v |-> JStr(<<97>>)]>>,
                                  encrypt)
    \/ register_callback(StrV(<<"10.0.0.1">>))

SpecTrail == InitKey /\ [][NextTrail]_vars

\* login requests served one at a time, while the audit store comes and goes
NextOutage ==
    \/ StoreFails
    \/ StoreRecovers
    \/ \E p \in Procs : Alone(p) /\ Handler(p)

SpecOutage == Init /\ [][NextOutage]_vars

----------------------------------------------------------------------------
(* Properties of verify_password and login *)

\* handler p executes the else branch of "Verify password" in this step
FailureStep(p) == pc[p] = "checkpw" /\ pc'[p] = "audit" /\ ~ret'[p].success

\* handler p executes "Check if account is locked" in this step
LockCheckStep(p) == pc[p] = "lockcheck" /\ pc'[p] # "lockcheck"

\* verify_password has returned to login in handler p
Returned(p) == pc[p] = "audit"

\* C1: a failed verification that brings the failed-attempt count to 5 or more
\* sets locked_until to now + 30 minutes in the same update, one that leaves
\* the count below 5 leaves locked_until unset, and from 4 recorded failures
\* one more failure locks the identity.
C1_LockAtThreshold ==
    [][\A p \in Procs : FailureStep(p) =>
          LET u == req[p].username IN
          /\ users'[u].failed_attempts >= 5
                 => users'[u].locked_until = now + 30
          /\ users'[u].failed_attempts < 5
                 => users'[u].locked_until = NULL
          /\ users[u].failed_attempts = 4
                 => /\ users'[u].failed_attempts = 5
                    /\ users'[u].locked_until = now + 30]_vars

C1_Witness ==
    \E p \in Procs :
        /\ Returned(p) /\ outcome[p] = "mismatch" /\ ~unlocked[p]
        /\ users[req[p].username].failed_attempts = 5
        /\ users[req[p].username].locked_until > now

\* C2: a call whose lock check runs while now < locked_until never returns
\* success, also with the correct password, and does not compare the
\* credential.
C2_LockedRejects ==
    [][\A p \in Procs :
          (/\ LockCheckStep(p)
           /\ users[req[p].username].locked_until # NULL
           /\ now < users[req[p].username].locked_until)
          => /\ pc'[p] = "audit"
             /\ ~ret'[p].success
             /\ ~checked'[p]]_vars

C2_Witness ==
    \E p \in Procs :
        /\ Returned(p) /\ outcome[p] = "locked"
        /\ req[p].password = StoredPassword[req[p].username]
        /\ ~ret[p].success /\ ~checked[p]

\* C3: the first call that finds locked_until elapsed and carries the correct
\* password returns success, and then the stored count is 0 and locked_until
\* is cleared.
C3_RecoveryAccepts ==
    \A p \in Procs :
        (/\ Returned(p) /\ unlocked[p]
         /\ req[p].password = StoredPassword[req[p].username])
        => /\ ret[p].success
           /\ users[req[p].username].failed_attempts = 0
           /\ users[req[p].username].locked_until = NULL

C3_Witness ==
    \E p \in Procs :
        /\ Returned(p) /\ unlocked[p] /\ ret[p].success
        /\ row[p].failed_attempts >= 5

\* C4: a wrong-password attempt made after the lockout expired leaves the
\* stored failed-attempt count at 1 and the identity not locked.
C4_FreshCountAfterExpiry ==
    \A p \in Procs :
        (Returned(p) /\ unlocked[p] /\ outcome[p] = "mismatch")
        => /\ users[req[p].username].failed_attempts = 1
           /\ users[req[p].username].locked_until = NULL

\* C5: the read-increment-write of the lockout record is atomic: every failed
\* attempt adds one to the count stored just before its write, and the
\* identity is locked whenever that brings the count to 5 or more.
C5_AtomicIncrement ==
    [][\A p \in Procs : (FailureStep(p) /\ ~unlocked[p]) =>
          LET u == req[p].username IN
          /\ users'[u].failed_attempts = users[u].failed_attempts + 1
          /\ users[u].failed_attempts + 1 >= 5
                 => users'[u].locked_until # NULL]_vars

\* C6: an attempt rejected because the account is locked and an attempt
\* rejected because the credential did not match return different values and
\* lead to different audit actions.
C6_LockedDistinctFromRejected ==
    \A p, q \in Procs :
        (/\ outcome[p] = "locked" /\ pc[p] \in {"audit", "done"}
         /\ outcome[q] = "mismatch" /\ pc[q] \in {"audit", "done"})
        => /\ ret[p] # ret[q]
           /\ (pc[p] = "done" /\ pc[q] = "done") => lastAudit[p] # lastAudit[q]

----------------------------------------------------------------------------
(* Properties of the callback cipher *)

\* the index of the rotation window that contains clock value t
WindowOf(t) == (t \div 60) \div rotation_hours

\* decrypt_callback returned the string str
Returns(str) == dResult = [ok |-> TRUE, str |-> str]

\* C7: decrypt_callback(encrypt_callback(P)) returns exactly P when both calls
\* execute within the same rotation window.
C7_RoundTripSameWindow ==
    (dpc = "done" /\ WindowOf(dTime) = WindowOf(encTime)) => Returns(plain)

C7_Witness ==
    /\ dpc = "done" /\ WindowOf(dTime) = WindowOf(encTime) /\ dTime > encTime
    /\ Len(plain) = 2 /\ plain[2] = 233
    /\ Returns(plain)

\* C8: a payload encrypted in window N and given to decrypt_callback with
\* try_previous = True in window N + 1 decrypts to P (stated for the deployed
\* rotation_hours = 24).
C8_PreviousWindowDecrypts ==
    (/\ dpc = "done" /\ dTry /\ rotation_hours = 24
     /\ WindowOf(dTime) = WindowOf(encTime) + 1
     /\ WindowOf(dTime2) = WindowOf(dTime))
    => Returns(plain)

\* C9: a payload encrypted in window N and given to decrypt_callback in
\* window N + 2 makes the call return None, never a string (stated for the
\* deployed rotation_hours = 24 and a non-empty plaintext).
C9_TwoWindowsLaterFails ==
    (/\ dpc = "done" /\ rotation_hours = 24 /\ plain # <<>>
     /\ WindowOf(dTime) = WindowOf(encTime) + 2
     /\ WindowOf(dTime2) = WindowOf(dTime))
    => dResult = None

----------------------------------------------------------------------------
(* Properties of XORCipher *)

\* bit j of the byte x
Bit(x, j) == (x \div (2 ^ j)) % 2

\* c is the bitwise exclusive or of the bytes a and b
IsXorOf(c, a, b) ==
    /\ c \in 0..255
    /\ \A j \in 0..7 : Bit(c, j) = (Bit(a, j) + Bit(b, j)) % 2

\* C10: for a non-empty key K, output[i] = input[i] XOR K[i mod len(K)], the
\* output is as long as the input, and applying the transform twice returns
\* the input.
C10_XorInvolution ==
    /\ xpc \in {"once", "twice"} =>
          /\ xKey # <<>>
          /\ Len(xOut1) = Len(xData)
          /\ \A i \in 1..Len(xData) :
                IsXorOf(xOut1[i], xData[i], xKey[((i - 1) % Len(xKey)) + 1])
    /\ xpc = "twice" => xOut2 = xData

C10_Witness ==
    /\ xpc = "twice"
    /\ Len(xKey) = 2 /\ xKey[1] # xKey[2]
    /\ Len(xData) > Len(xKey)
    /\ xOut1 # xData
    /\ xOut2 = xData

----------------------------------------------------------------------------
(* Properties of generate_key_for_date *)

SameInputs(a, b) ==
    /\ a.seed = b.seed
    /\ a.date = b.date
    /\ a.algorithm = b.algorithm
    /\ a.key_length = b.key_length

FirstDigest(c) ==
    HashlibDigest(c.algorithm, HashInput(c.seed, c.date))

\* C12: for sha256, sha512 and md5 and a key_length of at least 1,
\* generate_key_for_date returns exactly key_length bytes; they start with
\* the digest of the input (or are a prefix of it), and every further block
\* of 32 bytes is the digest of the bytes before it followed by the input.
C12_ExactLength ==
    (kCur.called /\ kCur.date # NoDate
       /\ kCur.algorithm \in {"sha256", "sha512", "md5"}
       /\ kCur.key_length >= 1)
    => LET d == FirstDigest(kCur)
           key == kCur.key
       IN /\ Len(key) = kCur.key_length
          /\ \A j \in 1..Len(key) :
               IF j <= Len(d)
               THEN key[j] = d[j]
               ELSE LET b == (j - Len(d) - 1) \div 32
                        before == SubSeq(key, 1, Len(d) + (32 * b))
                    IN key[j] = <<"sha256",
                                  before \o HashInput(kCur.seed, kCur.date),
                                  j - Len(d) - (32 * b)>>

\* an md5 key of 49 bytes: the 16-byte digest extended twice and cut
C12_Witness ==
    /\ kCur.called
    /\ kCur.date # NoDate
    /\ kCur.algorithm = "md5"
    /\ kCur.key_length = 49
    /\ Len(kCur.key) = 49

----------------------------------------------------------------------------
(* Properties of audit_log *)

AuditFields == {"timestamp", "user_id", "action", "ip_address", "details"}

\* values an edit of the audit_log table can put into a column
TamperValues ==
    {NoneV, StrV(<<"None">>), StrV(<<"a">>), StrV(<<"LOGOUT">>), IntV(1), IntV(2),
     StrV(IsoFormat(StartTime)), StrV(IsoFormat(StartTime + KeyStep))}

\* the integrity hash recomputed over the columns of a row
Recomputed(e) == sha384_hash(AuditData(e))

\* C13: for every row written by audit_log, changing the value of any one
\* column (timestamp, user id, action, source address, details) and recomputing
\* the hash over the columns gives a hash different from the stored
\* integrity_hash.
C13_TamperDetected ==
    \A i \in 1..Len(auditLog) : \A f \in AuditFields : \A v \in TamperValues :
        v # auditLog[i][f]
            => Recomputed([auditLog[i] EXCEPT ![f] = v]) # auditLog[i].integrity_hash

\* C14: audit_log never fails visibly: whether or not the audit store accepts
\* the insert, a finished login has answered with the page that belongs to the
\* outcome of the verification.
C14_AuditFailureInvisible ==
    \A p \in Procs :
        (pc[p] = "done" /\ outcome[p] \in {"accepted", "mismatch", "locked", "nouser"})
            => resp[p] = LoginResponse(ret[p].success)

----------------------------------------------------------------------------
(* Properties of generate_domain_list *)

----------------------------------------------------------------------------
(* Properties of register_callback *)

\* requests i and j carry the same attribute map with a valid API key, i
\* unencrypted and j encrypted
SameMapBothForms(i, j) ==
    /\ regLog[i].api_key = API_KEY
    /\ regLog[j].api_key = API_KEY
    /\ ~regLog[i].encrypt
    /\ regLog[j].encrypt
    /\ regLog[i].env_data = regLog[j].env_data

SameStored(i, j) ==
    /\ regLog[i].stored = regLog[j].stored
    /\ regLog[i].attrs = regLog[j].attrs

\* C16, as stated: for every attribute map M and a valid API key, the
\* encrypted registration of M stores the same callback attributes as the
\* unencrypted registration of M in the same rotation period.
C16_EveryMap ==
    \A i, j \in 1..Len(regLog) : SameMapBothForms(i, j) => SameStored(i, j)

\* C16, amended: for every attribute map M that has no true 'encrypted'
\* entry, and a valid API key, the encrypted registration of M stores the same
\* callback attributes as the unencrypted registration of M in the same
\* rotation period.
C16_MapsWithoutFlag ==
    \A i, j \in 1..Len(regLog) :
        (SameMapBothForms(i, j)
           /\ ~Truthy(Get(regLog[i].env_data, KeyChars("encrypted"), JBool(FALSE))))
        => SameStored(i, j)

\* a host named '"' registers unencrypted, and an hour later encrypted; both
\* rows are stored
C16_Witness ==
    /\ Len(regLog) = 2
    /\ SameMapBothForms(1, 2)
    /\ regLog[1].stored /\ regLog[2].stored
    /\ regLog[2].attrs["hostname"] = JStr(<<34>>)
    /\ regLog[2].attrs["ssh_port"] = JInt(22)
    /\ Len(callbacks) = 2
    /\ callbacks[1].timestamp < callbacks[2].timestamp

----------------------------------------------------------------------------
(* Properties of the lockout record *)

\* handler p executes the "Unlock account" UPDATE in this step
UnlockStep(p) ==
    /\ pc[p] = "lockcheck" /\ pc'[p] = "checkpw"
    /\ ~unlocked[p] /\ unlocked'[p]

\* handler p executes the UPDATE of the success branch in this step
SuccessStep(p) == pc[p] = "checkpw" /\ pc'[p] = "audit" /\ ret'[p].success

\* verify_password returns to login in handler p in this step
ReturnStep(p) == pc[p] # "audit" /\ pc'[p] = "audit"

\* a step that takes the stored count of u to 0 is the success UPDATE or the
\* unlock UPDATE of a call for u
ZeroedOnlyByResets ==
    \A u \in Users :
        (users[u].failed_attempts # 0 /\ users'[u].failed_attempts = 0)
        => \E p \in Procs :
               /\ req[p].username = u
               /\ UnlockStep(p) \/ SuccessStep(p)

\* C17 as stated: the stored failed-attempt count changes to 0 only in a
\* verification that succeeds or in an attempt that finds locked_until
\* elapsed and clears it, and after either of them the stored count is 0
\* when the call returns.
C17_ZeroAtReturn ==
    [][/\ ZeroedOnlyByResets
       /\ \A p \in Procs :
              (/\ ReturnStep(p)
               /\ req[p].username \in Users
               /\ unlocked'[p] \/ ret'[p].success)
              => users'[req[p].username].failed_attempts = 0]_vars

\* C17, amended: the stored failed-attempt count changes to 0 only in the
\* UPDATE of a verification that succeeds or in the UPDATE of an attempt that
\* finds locked_until elapsed; the count is 0 right after either UPDATE, and
\* it is 0 when a call that succeeds returns.
C17_ZeroAfterReset ==
    [][/\ ZeroedOnlyByResets
       /\ \A p \in Procs :
              /\ UnlockStep(p) => users'[req[p].username].failed_attempts = 0
              /\ SuccessStep(p)
                     => /\ ReturnStep(p)
                        /\ users'[req[p].username].failed_attempts = 0]_vars

C17_Witness ==
    \E p \in Procs :
        /\ Returned(p) /\ outcome[p] = "accepted" /\ ~unlocked[p]
        /\ row[p].failed_attempts \in 1..(THRESHOLD - 1)
        /\ users[req[p].username].failed_attempts = 0

\* C18: a call whose lock check runs while now < locked_until returns at that
\* check and leaves the lockout record as it was: the stored failed-attempt
\* count and locked_until are the values the call SELECTed when it started.
C18_LockedCallKeepsRecord ==
    [][\A p \in Procs :
          (/\ LockCheckStep(p)
           /\ users[req[p].username].locked_until # NULL
           /\ now < users[req[p].username].locked_until)
          => /\ ReturnStep(p)
             /\ users'[req[p].username] = users[req[p].username]
             /\ users'[req[p].username] = row[p]]_vars

C18_Witness ==
    \E p \in Procs :
        /\ Returned(p) /\ outcome[p] = "locked"
        /\ req[p].password # StoredPassword[req[p].username]
        /\ row[p].failed_attempts >= THRESHOLD
        /\ now < row[p].locked_until
        /\ users[req[p].username] = row[p]

\* handler p executes a statement of verify_password in this step
VerifyStep(p) ==
    /\ pc[p] \in {"select", "lockcheck", "checkpw"}
    /\ pc'[p] # pc[p]

\* C19: a step of a verify_password call for identity A, whatever its outcome,
\* leaves the failed-attempt count and locked_until of every other identity B
\* as they were, also when calls for A and B interleave.
C19_OtherIdentitiesUntouched ==
    [][\A p \in Procs : VerifyStep(p) =>
          \A b \in Users \ {req[p].username} : users'[b] = users[b]]_vars

C19_Witness ==
    \E p, q \in Procs :
        /\ req[p].username = "admin" /\ req[q].username = "operator"
        /\ Returned(p) /\ outcome[p] = "mismatch"
        /\ users["admin"].locked_until # NULL
        /\ pc[q] = "checkpw"
        /\ users["operator"] = row[q]
        /\ users["operator"].failed_attempts \in 1..(THRESHOLD - 1)
        /\ users["operator"].locked_until = NULL

\* the verify_password call of handler p is cancelled in this step
AbortStep(p) == outcome[p] # "aborted" /\ outcome'[p] = "aborted"

\* C20: a verify_password call that is cancelled before it returns leaves the
\* lockout record of its identity as it was when the call started: the stored
\* failed-attempt count and locked_until are the values the call SELECTed.
C20_AbortKeepsRecord ==
    [][\A p \in Procs : AbortStep(p) =>
          /\ users' = users
          /\ (pc[p] # "select" /\ req[p].username \in Users)
                 => users'[req[p].username] = row[p]]_vars

\* C27: in every reachable state the stored failed-attempt count of every
\* identity is between 0 and the threshold 5.
C27_CountWithinThreshold ==
    \A u \in Users : users[u].failed_attempts \in 0..THRESHOLD

----------------------------------------------------------------------------
(* Properties of the audit trail *)

\* C21: the audit log is append-only: whatever login, logout or
\* register_callback does, every row written before is still there, at the
\* same position, with all its fields and its integrity_hash as written.
C21_AppendOnly ==
    [][/\ Len(auditLog') >= Len(auditLog)
       /\ SubSeq(auditLog', 1, Len(auditLog)) = auditLog]_vars

C21_Witness ==
    /\ Len(auditLog) = 2
    /\ auditLog[1].action = StrV(<<"LOGIN_SUCCESS">>)
    /\ auditLog[1].integrity_hash = sha384_hash(AuditData(auditLog[1]))
    /\ auditLog[2].action \in {StrV(<<"LOGOUT">>), StrV(<<"CALLBACK_REGISTERED">>)}
    /\ auditLog[1].timestamp # auditLog[2].timestamp

\* handler p answers a login POST that lacks a field in this step
MissingStep(p) ==
    /\ pc[p] \in {"idle", "done"} /\ pc'[p] = "done"
    /\ outcome'[p] = "missing"
    /\ pc[p] = "idle" \/ outcome[p] # "missing"

\* handler p leaves login() after verify_password in this step
FinishStep(p) == pc[p] = "audit" /\ pc'[p] = "done"

\* the row written last
LastRow(table) == table[Len(table)]

\* C22: every login attempt appends exactly one audit row, in the step that
\* produces the response and not before, and the action of the row is
\* LOGIN_SUCCESS if and only if verify_password accepted the credential,
\* LOGIN_FAILED otherwise.
C22_OneEntryPerLogin ==
    [][\A p \in Procs :
          /\ (pc[p] \in {"select", "lockcheck", "checkpw"} \/ pc'[p] = "select")
                 => auditLog' = auditLog
          /\ MissingStep(p)
                 => /\ auditLog' = Append(auditLog, LastRow(auditLog'))
                    /\ LastRow(auditLog').action = StrV(<<"LOGIN_FAILED">>)
                    /\ resp'[p] = "login_error"
          /\ FinishStep(p)
                 => /\ auditLog' = Append(auditLog, LastRow(auditLog'))
                    /\ LastRow(auditLog').action = StrV(<<"LOGIN_SUCCESS">>)
                           <=> (outcome[p] = "accepted" /\ ret[p].success)
                    /\ LastRow(auditLog').action = StrV(<<"LOGIN_FAILED">>)
                           <=> outcome[p] # "accepted"
                    /\ resp'[p] = "dashboard"
                           <=> outcome[p] = "accepted"]_vars

C22_Witness ==
    \E p \in Procs :
        /\ pc[p] = "done" /\ outcome[p] = "accepted" /\ resp[p] = "dashboard"
        /\ Len(auditLog) = 2
        /\ auditLog[1].action = StrV(<<"LOGIN_FAILED">>)
        /\ auditLog[1].details = StrV(<<"Invalid credentials for: ", "admin">>)
        /\ auditLog[2].action = StrV(<<"LOGIN_SUCCESS">>)
        /\ auditLog[2].user_id = IntV(UserId["admin"])

\* C29: the text hashed by audit_log is an injective encoding of the fields:
\* two rows that differ in timestamp, user id, action, source address or
\* details never have the same hash input, also when a field contains '|' or
\* when user id or details is None.
C29_HashInputInjective ==
    \A i, j \in 1..Len(auditLog) :
        (\E f \in AuditFields : auditLog[i][f] # auditLog[j][f])
            => AuditData(auditLog[i]) # AuditData(auditLog[j])

----------------------------------------------------------------------------
(* Properties of the rotating key *)

\* decrypt_callback is entered in this step
DecryptEnterStep == dpc = "idle" /\ dpc' # "idle"

\* decrypt_callback makes its second attempt in this step
DecryptSecondStep == dpc = "previous" /\ dpc' # "previous"

\* C23: one decrypt_callback call tries at most two keys: first the key of the
\* window that contains its clock read, and then, only when try_previous is
\* true and the first attempt failed, the key of the window right before the
\* one that contains the second clock read; with try_previous false a payload
\* that fails under the current key gives None with no further attempt.
C23_AtMostTwoKeys ==
    [][/\ Len(dKeys') <= 2
       /\ DecryptEnterStep =>
             LET first == CipherDecrypt(GenerateRotatingKey(now, rotation_hours),
                                        payload)
             IN /\ dKeys' = <<PeriodStartHours(now, rotation_hours)>>
                /\ dpc' = "previous" <=> (dTry' /\ ~first.ok)
                /\ dpc' # "previous" => dpc' = "done"
                /\ (~dTry' /\ ~first.ok) => dResult' = None
                /\ first.ok => dResult' = first
       /\ DecryptSecondStep =>
             /\ dpc' = "done"
             /\ dTry
             /\ dKeys' = Append(dKeys, PeriodStartHours(now, rotation_hours)
                                           - rotation_hours)]_vars

C23_Witness ==
    /\ dpc = "done" /\ dTry
    /\ Len(dKeys) = 2
    /\ dKeys[1] = PeriodStartHours(dTime, rotation_hours)
    /\ dKeys[2] = dKeys[1] - rotation_hours
    /\ dResult = None

\* C28: when one decrypt_callback call tries two keys, they are the keys of
\* two different, adjacent windows W and W - 1, also when the clock passes a
\* rotation boundary between the two clock reads of the call.
C28_AdjacentWindows ==
    Len(dKeys) = 2 => dKeys[2] = dKeys[1] - rotation_hours

\* C24: the window start computed by generate_rotating_key at instant t with
\* rotation period r is a multiple of r hours after the epoch with
\* start <= t < start + r hours, and it is the only such multiple: the
\* windows are contiguous, do not overlap, and t belongs to exactly one.
C24_WindowStart ==
    kCur.called =>
        LET r == rotation_hours
            start == kCur.date
            t == kCur.t
        IN /\ start % r = 0
           /\ start = ((t \div 60) \div r) * r
           /\ start * 60 <= t /\ t < (start + r) * 60
           /\ \A k \in 0..(t \div 60) :
                  (k % r = 0 /\ k * 60 <= t /\ t < (k + r) * 60) => k = start

C24_Witness ==
    /\ kCur.called
    /\ rotation_hours = 5
    /\ kCur.t % 60 # 0
    /\ kCur.date % 24 # 0
    /\ kCur.date * 60 < kCur.t
    /\ kCur.t > StartTime + (24 * 60)

\* C25: for every rotation period, two calls of generate_rotating_key with
\* the same seed, algorithm and key length return different keys when their
\* instants lie in different rotation windows, and the same key when they lie
\* in the same window.
C25_KeysRotate ==
    (/\ kPrev.called /\ kCur.called
     /\ kCur.seed = kPrev.seed
     /\ kCur.algorithm = kPrev.algorithm
     /\ kCur.key_length = kPrev.key_length)
    => /\ kCur.date # kPrev.date => kCur.key # kPrev.key
       /\ kCur.date = kPrev.date => kCur.key = kPrev.key

\* C30: for every seed, instant, rotation period, algorithm name and key
\* length, the generate_rotating_key embedded in the client returns the same
\* bytes as the server's generate_rotating_key called at the same instant.
C30_ClientKeyIsServerKey ==
    kCur.called => kCur.client = kCur.key

C30_Witness ==
    /\ kCur.called
    /\ kCur.algorithm = "md5" /\ kCur.key_length = 33
    /\ rotation_hours = 36
    /\ kCur.date > 24
    /\ Len(kCur.key) = 33
    /\ kCur.client = kCur.key

----------------------------------------------------------------------------
(* Properties of XORCipher.decrypt *)

\* t is a base64 encoding as b64encode writes it: groups of four characters
\* of the alphabet, the last group ending in at most two '='
WellFormed(t) ==
    /\ Len(t) % 4 = 0
    /\ \A i \in 1..Len(t) :
           /\ t[i] <= PadChar
           /\ t[i] = PadChar =>
                  /\ i >= Len(t) - 1
                  /\ t[Len(t)] = PadChar

\* C26: XORCipher.decrypt fails with a decode error on every text that is not
\* a well-formed base64 encoding, also one with characters outside the
\* alphabet, and does not apply the XOR to it.
C26_MalformedRejected ==
    (xpc # "ready" /\ ~WellFormed(xData))
    => /\ xpc = "rejected"
       /\ ~dResult.ok
       /\ xOut1 = <<>>

====
